---- MODULE Spec2Model ----
(***************************************************************************)
(* A model of sopel_modules/twitter/twitter.py: the URL dispatcher         *)
(* (get_url), the two output paths (output_status, output_user) and the    *)
(* tweet formatter (format_tweet).                                         *)
(*                                                                         *)
(* Strings are sequences of characters; a character is a one-element       *)
(* TLA+ string.  Characters outside ASCII are written by their code point, *)
(* e.g. "<U+23CE>" is the single character U+23CE.  Decoded JSON objects   *)
(* are functions from keys to values, so that an optional key is a key     *)
(* that is or is not in the DOMAIN, as in a Python dict.                   *)
(***************************************************************************)
EXTENDS Integers, Sequences, FiniteSets, TLC

VARIABLES
    pc,        \* "ready": the call has not run yet; "done": it returned; "raised": it raised
    call,      \* the invocation under way: the function and its arguments
    http,      \* the HTTP status of the last response ("" before any request)
    said,      \* the lines passed to bot.say, in order
    logs,      \* the entries passed to logger.error / logger.debug, in order
    requests,  \* the requests made with client.request, in order
    routed,    \* get_url only: the calls it made, each a function and its argument
    result,    \* format_tweet only: the value returned
    prev       \* what the previous trigger for the same resource produced

vars == <<pc, call, http, said, logs, requests, routed, result, prev>>

(***************************************************************************)
(* Characters and Python's string operations                               *)
(***************************************************************************)
NL == "\n"
SP == " "
GLYPH == "<U+23CE>"
HEART == "<U+2665>"
CHECK == "<U+2714>"
VS16 == "<U+FE0F>"
LOCK == "<U+1F512>"
ELLIPSIS == "<U+2026>"

\* What the str type of Python 3 and the \s class of re count as whitespace,
\* among the characters of the model.
IsSpace(c) == c \in {SP, NL, "\t"}

EmptyRec == [k \in {} |-> 0]

\* dict.get(key, default)
Get(d, key, default) == IF key \in DOMAIN d THEN d[key] ELSE default

Opt(present, key, value) == IF present THEN key :> value ELSE EmptyRec

Min(S) == CHOOSE m \in S : \A n \in S : m <= n

Max(S) == CHOOSE m \in S : \A n \in S : m >= n

\* sub in s
Occurs(sub, s) ==
    \E i \in 1..(Len(s) - Len(sub) + 1) : SubSeq(s, i, i + Len(sub) - 1) = sub

StartsWith(s, p) == Len(p) <= Len(s) /\ SubSeq(s, 1, Len(p)) = p

EndsWith(s, p) == Len(p) <= Len(s) /\ SubSeq(s, Len(s) - Len(p) + 1, Len(s)) = p

RECURSIVE Interleave(_, _)
Interleave(s, new) ==
    new \o (IF s = <<>> THEN <<>> ELSE <<Head(s)>> \o Interleave(Tail(s), new))

\* s.replace(old, new): every occurrence, leftmost first, without overlap.
RECURSIVE Replace(_, _, _)
Replace(s, old, new) ==
    IF old = <<>> THEN Interleave(s, new)
    ELSE IF Len(s) < Len(old) THEN s
    ELSE IF SubSeq(s, 1, Len(old)) = old
         THEN new \o Replace(SubSeq(s, Len(old) + 1, Len(s)), old, new)
         ELSE <<Head(s)>> \o Replace(Tail(s), old, new)

\* s.rsplit('/', 1): at most one split, at the last '/'.
RSplit1(s) ==
    LET slashes == {i \in 1..Len(s) : s[i] = "/"}
    IN  IF slashes = {} THEN <<s>>
        ELSE <<SubSeq(s, 1, Max(slashes) - 1), SubSeq(s, Max(slashes) + 1, Len(s))>>

\* The length of the run of whitespace of s that starts at index i.
RECURSIVE SpaceRun(_, _)
SpaceRun(s, i) ==
    IF i <= Len(s) /\ IsSpace(s[i]) THEN 1 + SpaceRun(s, i + 1) ELSE 0

\* Where a match of \s*<url>\s* that starts at index i ends (the index after
\* it), or 0 when there is none.  The leading \s* is greedy and gives back one
\* character at a time until the literal matches; the trailing \s* takes all
\* the whitespace that follows.
MatchEnd(s, url, i) ==
    LET lead == {j \in 0..SpaceRun(s, i) :
                    /\ i + j + Len(url) - 1 <= Len(s)
                    /\ SubSeq(s, i + j, i + j + Len(url) - 1) = url}
    IN  IF lead = {} THEN 0
        ELSE LET e == i + Max(lead) + Len(url) IN e + SpaceRun(s, e)

\* re.sub('\\s*{url}\\s*'.format(url=re.escape(url)), '', s) from index i on,
\* for a url that is not empty: every match is removed, leftmost first.
RECURSIVE ReSubFrom(_, _, _)
ReSubFrom(s, url, i) ==
    IF i > Len(s) THEN <<>>
    ELSE IF MatchEnd(s, url, i) # 0 THEN ReSubFrom(s, url, MatchEnd(s, url, i))
    ELSE <<s[i]>> \o ReSubFrom(s, url, i + 1)

ReSubStrip(s, url) == ReSubFrom(s, url, 1)

(***************************************************************************)
(* format_tweet                                                            *)
(***************************************************************************)
\* get_extended_media(tweet)
GetExtendedMedia(tweet) == Get(Get(tweet, "extended_entities", EmptyRec), "media", <<>>)

\* try: tweet['full_text'] except KeyError: tweet['text']
SourceText(tweet) ==
    IF "full_text" \in DOMAIN tweet THEN tweet["full_text"] ELSE tweet["text"]

\* text.replace("\n", " \u23CE ")
ReplaceNewlines(text) == Replace(text, <<NL>>, <<SP, GLYPH, SP>>)

\* The index of the first URL entity whose expanded URL's last path segment is
\* the quoted status id; 0 when there is none.
QuotedLinkIndex(tweet) ==
    LET urls == tweet["entities"]["urls"]
        hits == {i \in 1..Len(urls) :
                    RSplit1(urls[i]["expanded_url"])[2] = tweet["quoted_status_id_str"]}
    IN  IF hits = {} THEN 0 ELSE Min(hits)

\* RemoveQuotedLink without the break: the link of every entity that links
\* to the quoted status is removed.
RECURSIVE RemoveLinksOf(_, _, _)
RemoveLinksOf(text, urls, id) ==
    IF urls = <<>> THEN text
    ELSE RemoveLinksOf(IF RSplit1(Head(urls)["expanded_url"])[2] = id
                       THEN ReSubStrip(text, Head(urls)["url"]) ELSE text,
                       Tail(urls), id)

RemoveQuotedLinkNoBreak(text, tweet) ==
    IF ~tweet["is_quote_status"] THEN text
    ELSE RemoveLinksOf(text, tweet["entities"]["urls"], tweet["quoted_status_id_str"])

\* The loop over urls under "if tweet['is_quote_status']", with its break.
RemoveQuotedLink(text, tweet) ==
    IF ~tweet["is_quote_status"] \/ QuotedLinkIndex(tweet) = 0 THEN text
    ELSE ReSubStrip(text, tweet["entities"]["urls"][QuotedLinkIndex(tweet)]["url"])

\* ExpandMedia without the append: an attachment that is not in the text is
\* dropped.
RECURSIVE ExpandMediaNoAppend(_, _)
ExpandMediaNoAppend(text, media) ==
    IF media = <<>> THEN text
    ELSE ExpandMediaNoAppend(
             Replace(text, Head(media)["url"], Head(media)["media_url_https"]),
             Tail(media))

\* The loop over media: replace in the text, or append when nothing changed.
RECURSIVE ExpandMedia(_, _)
ExpandMedia(text, media) ==
    IF media = <<>> THEN text
    ELSE LET item == Head(media)
             replaced == Replace(text, item["url"], item["media_url_https"])
         IN  ExpandMedia(IF replaced = text THEN text \o item["media_url_https"]
                                            ELSE replaced,
                         Tail(media))

\* s.replace(old, new, 1): the first occurrence only.
RECURSIVE ReplaceFirst(_, _, _)
ReplaceFirst(s, old, new) ==
    IF Len(s) < Len(old) THEN s
    ELSE IF SubSeq(s, 1, Len(old)) = old
         THEN new \o SubSeq(s, Len(old) + 1, Len(s))
         ELSE <<Head(s)>> \o ReplaceFirst(Tail(s), old, new)

\* ExpandUrls with the first occurrence of each link expanded only.
RECURSIVE ExpandUrlsFirstOnly(_, _)
ExpandUrlsFirstOnly(text, urls) ==
    IF urls = <<>> THEN text
    ELSE ExpandUrlsFirstOnly(
             ReplaceFirst(text, Head(urls)["url"], Head(urls)["expanded_url"]),
             Tail(urls))

\* The loop over urls: text.replace(url['url'], url['expanded_url']).
RECURSIVE ExpandUrls(_, _)
ExpandUrls(text, urls) ==
    IF urls = <<>> THEN text
    ELSE ExpandUrls(Replace(text, Head(urls)["url"], Head(urls)["expanded_url"]),
                    Tail(urls))

\* The text of the tweet as displayed, before the author is put in front.
TweetText(tweet) ==
    ExpandUrls(
        ExpandMedia(RemoveQuotedLink(ReplaceNewlines(SourceText(tweet)), tweet),
                    GetExtendedMedia(tweet)),
        tweet["entities"]["urls"])

\* u['name'] + ' (@' + u['screen_name'] + '): '
AuthorPrefix(tweet) ==
    tweet["user"]["name"] \o <<" ", "(", "@">> \o tweet["user"]["screen_name"]
        \o <<")", ":", " ">>

FormatTweet(tweet) == AuthorPrefix(tweet) \o TweetText(tweet)

(***************************************************************************)
(* Python values written out: str(), '{:,}'.format(), None                 *)
(***************************************************************************)
\* None, as a value that is no string of characters.
None == <<"<None>">>

\* '{}'.format(v) for a string or None
PyStr(v) ==
    IF v = None THEN
    <<"N", "o", "n", "e">>
    ELSE v

Digit(d) == <<"0", "1", "2", "3", "4", "5", "6", "7", "8", "9">>[d + 1]

\* str(n) for an integer n >= 0
RECURSIVE IntToStr(_)
IntToStr(n) == IF n < 10 THEN <<Digit(n)>> ELSE IntToStr(n \div 10) \o <<Digit(n % 10)>>

\* '{:,}'.format(n) for an integer n >= 0: a comma before every group of three
\* digits but the first.
RECURSIVE WithCommas(_)
WithCommas(n) ==
    IF n < 1000 THEN IntToStr(n)
    ELSE LET low == n % 1000
         IN  WithCommas(n \div 1000) \o <<",">>
                \o <<Digit(low \div 100), Digit((low \div 10) % 10), Digit(low % 10)>>

(***************************************************************************)
(* format_time: Twitter's "Wed Oct 10 20:19:24 +0000 2018" parsed with     *)
(* '%a %b %d %H:%M:%S %z %Y' and written by the host, here with the host's *)
(* defaults (UTC, '%Y-%m-%d - %T%Z').  Twitter's stamps are all +0000.      *)
(***************************************************************************)
MonthNumber(abbrev) ==
    CASE abbrev = <<"J", "a", "n">> -> <<"0", "1">>
      [] abbrev = <<"F", "e", "b">> -> <<"0", "2">>
      [] abbrev = <<"M", "a", "r">> -> <<"0", "3">>
      [] abbrev = <<"A", "p", "r">> -> <<"0", "4">>
      [] abbrev = <<"M", "a", "y">> -> <<"0", "5">>
      [] abbrev = <<"J", "u", "n">> -> <<"0", "6">>
      [] abbrev = <<"J", "u", "l">> -> <<"0", "7">>
      [] abbrev = <<"A", "u", "g">> -> <<"0", "8">>
      [] abbrev = <<"S", "e", "p">> -> <<"0", "9">>
      [] abbrev = <<"O", "c", "t">> -> <<"1", "0">>
      [] abbrev = <<"N", "o", "v">> -> <<"1", "1">>
      [] abbrev = <<"D", "e", "c">> -> <<"1", "2">>

FormatTime(stamp) ==
    SubSeq(stamp, 27, 30) \o <<"-">> \o MonthNumber(SubSeq(stamp, 5, 7)) \o <<"-">>
        \o SubSeq(stamp, 9, 10) \o <<" ", "-", " ">> \o SubSeq(stamp, 12, 19)
        \o <<"U", "T", "C">>

(***************************************************************************)
(* The texts of the module                                                 *)
(***************************************************************************)
ErrorPrefix ==
    <<"T", "w", "i", "t", "t", "e", "r", " ", "r", "e", "t", "u", "r", "n",
      "e", "d", " ", "a", "n", " ", "e", "r", "r", "o", "r">>

TweetFallback ==
    <<".", " ", ":", "(", " ", "M", "a", "y", "b", "e", " ", "t", "h", "e",
      " ", "t", "w", "e", "e", "t", " ", "w", "a", "s", " ", "d", "e", "l",
      "e", "t", "e", "d", "?">>

UserFallback ==
    <<".", " ", ":", "(", " ", "M", "a", "y", "b", "e", " ", "t", "h", "a",
      "t", " ", "u", "s", "e", "r", " ", "d", "o", "e", "s", "n", "'", "t",
      " ", "e", "x", "i", "s", "t", "?">>

UnknownDescription ==
    <<"(", "u", "n", "k", "n", "o", "w", "n", " ", "d", "e", "s", "c", "r",
      "i", "p", "t", "i", "o", "n", ")">>

StatusUrlHead ==
    <<"h", "t", "t", "p", "s", ":", "/", "/", "a", "p", "i", ".", "t", "w",
      "i", "t", "t", "e", "r", ".", "c", "o", "m", "/", "1", ".", "1", "/",
      "s", "t", "a", "t", "u", "s", "e", "s", "/", "s", "h", "o", "w", "/">>

StatusUrlTail ==
    <<".", "j", "s", "o", "n", "?", "t", "w", "e", "e", "t", "_", "m", "o",
      "d", "e", "=", "e", "x", "t", "e", "n", "d", "e", "d">>

UserUrlHead ==
    <<"h", "t", "t", "p", "s", ":", "/", "/", "a", "p", "i", ".", "t", "w",
      "i", "t", "t", "e", "r", ".", "c", "o", "m", "/", "1", ".", "1", "/",
      "u", "s", "e", "r", "s", "/", "s", "h", "o", "w", ".", "j", "s", "o",
      "n", "?", "s", "c", "r", "e", "e", "n", "_", "n", "a", "m", "e", "=">>

Tag ==
    <<"[", "T", "w", "i", "t", "t", "e", "r", "]", " ">>

Bar ==
    <<" ", "|", " ">>

RTsBar ==
    <<" ", "R", "T", "s", " ", "|", " ">>

HeartsPosted ==
    <<" ", HEART, "s", " ", "|", " ", "P", "o", "s", "t", "e", "d", ":",
      " ">>

Quoting ==
    <<"Q", "u", "o", "t", "i", "n", "g", ":", " ">>

Friends ==
    <<" ", "f", "r", "i", "e", "n", "d", "s", ",", " ">>

Followers ==
    <<" ", "f", "o", "l", "l", "o", "w", "e", "r", "s">>

Tweets ==
    <<" ", "t", "w", "e", "e", "t", "s", ",", " ">>

Hearts ==
    <<" ", HEART, "s">>

Joined ==
    <<"J", "o", "i", "n", "e", "d", ":", " ">>

Excess ==
    <<" ", "[", ELLIPSIS, "]">>

(***************************************************************************)
(* output_status and output_user                                           *)
(*                                                                         *)
(* A run of either is given what Twitter answers (the HTTP status and the  *)
(* content) and yields what it did: the lines said, the log entries, the   *)
(* requests made and the exception it ended with ("" when it returned).    *)
(* The content is JSON that decodes to a value, or is not JSON at all.     *)
(***************************************************************************)
Outcome(lines, entries, reqs, exception) ==
    [said |-> lines, logs |-> entries, requests |-> reqs, raised |-> exception]

\* logger.error('%s error reaching the twitter API for ...', status, arg)
HttpErrorLog(status, what, arg) ==
    IF status # "200"
    THEN <<[level |-> "error", status |-> status, what |-> what, arg |-> PyStr(arg)]>>
    ELSE <<>>

\* A variant that closes every message with a period, whether or not it has
\* one: the property of the error line must tell it from ErrorMessage.
ErrorMessageAlwaysPeriod(error, fallback) ==
    IF "message" \in DOMAIN error
    THEN ErrorPrefix \o <<":", " ">> \o error["message"] \o <<".">>
    ELSE ErrorPrefix \o fallback

\* The message said for an error entry: the prefix and the entry's message,
\* closed by a period if it has none, or the prefix and the fallback.
ErrorMessage(error, fallback) ==
    IF "message" \in DOMAIN error
    THEN LET msg == ErrorPrefix \o <<":", " ">> \o error["message"]
         IN  IF msg[Len(msg)] # "." THEN msg \o <<".">> ELSE msg
    ELSE ErrorPrefix \o fallback

\* logger.debug(... error.get('code', '-1') ... error.get('message', ...))
ErrorLog(what, arg, error) ==
    [level |-> "debug", what |-> what, arg |-> PyStr(arg),
     code |-> IF "code" \in DOMAIN error THEN IntToStr(error["code"]) ELSE <<"-", "1">>,
     message |-> Get(error, "message", UnknownDescription)]

\* template.format(tweet=lead + format_tweet(tweet), RTs=..., hearts=..., posted=...)
StatusLine(tweet, lead) ==
    Tag \o lead \o FormatTweet(tweet) \o Bar \o IntToStr(tweet["retweet_count"])
        \o RTsBar \o IntToStr(tweet["favorite_count"]) \o HeartsPosted
        \o FormatTime(tweet["created_at"])

\* A variant that asks Twitter again after an error and reports what it gets.
ErrorOutcomeRetry(what, arg, error, fallback, errlog, reqs) ==
    Outcome(<<ErrorMessage(error, fallback), ErrorMessage(error, fallback)>>,
            errlog \o <<ErrorLog(what, arg, error), ErrorLog(what, arg, error)>>,
            reqs \o reqs, "")

\* An errors list that is not empty ends the run: the message is said, the
\* code and the message are logged, and the function returns.
ErrorOutcome(what, arg, error, fallback, errlog, reqs) ==
    Outcome(<<ErrorMessage(error, fallback)>>,
            errlog \o <<ErrorLog(what, arg, error)>>, reqs, "")

\* output_status from json.loads on: the content is decoded whatever the
\* HTTP status was.
StatusBody(id, content, show, errlog, reqs) ==
    IF ~content.json THEN Outcome(<<>>, errlog, reqs, "ValueError")
    ELSE LET tweet == content.value
         IN  IF Get(tweet, "errors", <<>>) # <<>>
             THEN ErrorOutcome("Tweet ID", id, tweet["errors"][1], TweetFallback,
                               errlog, reqs)
             ELSE IF tweet["is_quote_status"] /\ show
             THEN IF "quoted_status" \in DOMAIN tweet
                  THEN Outcome(<<StatusLine(tweet, <<>>),
                                 StatusLine(tweet["quoted_status"], Quoting)>>,
                               errlog, reqs, "")
                  ELSE Outcome(<<StatusLine(tweet, <<>>)>>, errlog, reqs, "KeyError")
             ELSE Outcome(<<StatusLine(tweet, <<>>)>>, errlog, reqs, "")

\* A variant that gives up when the HTTP status is not 200.
OutputStatusRunStopsOnHttpError(id, status, content, show) ==
    LET reqs == <<StatusUrlHead \o PyStr(id) \o StatusUrlTail>>
        errlog == HttpErrorLog(status, "status ID", id)
    IN  IF status # "200" THEN Outcome(<<>>, errlog, reqs, "")
        ELSE StatusBody(id, content, show, errlog, reqs)

\* output_status(bot, trigger, id_): the request, the log entry of a status
\* other than 200, and the rest.
OutputStatusRun(id, status, content, show) ==
    StatusBody(id, content, show,
               HttpErrorLog(status, "status ID", id),
               <<StatusUrlHead \o PyStr(id) \o StatusUrlTail>>)

\* The host's tools.get_sendable_message(text): while the text is longer, in
\* bytes of UTF-8, than the host sends in one message, it is cut at its last
\* space (at the limit when it has none); the result is the text and what was
\* cut off, without the whitespace it starts with.
MaxSendable == 400

\* len(c.encode('utf-8')) for a character of the model
Utf8Bytes(c) ==
    IF c = LOCK THEN 4
    ELSE IF c \in {GLYPH, HEART, CHECK, VS16, ELLIPSIS} THEN 3
    ELSE 1

\* len(text.encode('utf-8')): a byte for every character, and the further
\* bytes of those that take three or four.
Utf8Len(s) ==
    Len(s) + 2 * Cardinality({i \in 1..Len(s) : Utf8Bytes(s[i]) >= 3})
           + Cardinality({i \in 1..Len(s) : Utf8Bytes(s[i]) = 4})

RECURSIVE LStrip(_)
LStrip(s) == IF s # <<>> /\ IsSpace(Head(s)) THEN LStrip(Tail(s)) ELSE s

RECURSIVE SendableLoop(_, _, _)
SendableLoop(text, excess, limit) ==
    IF Utf8Len(text) <= MaxSendable THEN <<text, LStrip(excess)>>
    ELSE LET spaces == {i \in 1..limit : i <= Len(text) /\ text[i] = SP}
         IN  IF spaces = {}
             THEN SendableLoop(SubSeq(text, 1, limit),
                               SubSeq(text, limit + 1, Len(text)) \o excess, limit - 1)
             ELSE SendableLoop(SubSeq(text, 1, Max(spaces) - 1),
                               SubSeq(text, Max(spaces), Len(text)) \o excess, limit)

GetSendableMessage(text) == SendableLoop(text, <<>>, MaxSendable)

\* A value an "if" takes for true, among strings and None.
Truthy(v) == v # None /\ v # <<>>

\* A variant that gives an absent field its separator all the same.
FieldAlwaysSeparated(value) == Bar \o (IF Truthy(value) THEN value ELSE <<>>)

\* (' | ' + value if value else ''): an optional field of the profile line.
Field(value) == IF Truthy(value) THEN Bar \o value ELSE <<>>

\* The line output_user builds, before the host's length limit.
UserMessage(user) ==
    LET url == IF Truthy(Get(user, "url", None))
               THEN user["entities"]["url"]["urls"][1]["expanded_url"]
               ELSE <<>>
        bio == IF Truthy(Get(user, "description", None))
               THEN ExpandUrls(user["description"], user["entities"]["description"]["urls"])
               ELSE <<>>
    IN  Tag \o user["name"] \o <<" ", "(", "@">> \o user["screen_name"] \o <<")">>
            \o (IF user["verified"] THEN <<" ", CHECK, VS16>> ELSE <<>>)
            \o (IF user["protected"] THEN <<" ", LOCK>> ELSE <<>>)
            \o Field(Get(user, "location", None))
            \o Field(url)
            \o Bar \o WithCommas(user["friends_count"]) \o Friends
            \o WithCommas(user["followers_count"]) \o Followers
            \o Bar \o WithCommas(user["statuses_count"]) \o Tweets
            \o WithCommas(user["favourites_count"]) \o Hearts
            \o Bar \o Joined \o FormatTime(user["created_at"])
            \o Field(bio)

\* output_user from json.loads on.
UserBody(sn, content, errlog, reqs) ==
    IF ~content.json THEN Outcome(<<>>, errlog, reqs, "ValueError")
    ELSE LET user == content.value
         IN  IF Get(user, "errors", <<>>) # <<>>
             THEN ErrorOutcome("Screen name", sn, user["errors"][1], UserFallback,
                               errlog, reqs)
             ELSE LET sendable == GetSendableMessage(UserMessage(user))
                  IN  Outcome(<<IF sendable[2] # <<>> THEN sendable[1] \o Excess
                                                      ELSE sendable[1]>>,
                              errlog, reqs, "")

\* output_user(bot, trigger, sn)
OutputUserRun(sn, status, content) ==
    UserBody(sn, content,
             HttpErrorLog(status, "screen name", sn),
             <<UserUrlHead \o PyStr(sn)>>)


(***************************************************************************)
(* The tweets format_tweet is applied to                                   *)
(*                                                                         *)
(* Twitter wraps every link of a tweet in a t.co link of fixed length; the *)
(* character "t" stands for the prefix "https://t.co/" and is followed by  *)
(* one character of identifier.  Expanded and media URLs are other URLs.   *)
(***************************************************************************)
MaxUrls == 2
MaxMedia == 2

T1 == <<"t", "1">>
T2 == <<"t", "2">>
T3 == <<"t", "3">>
T4 == <<"t", "4">>
QuotedId == <<"7">>

\* ".../7" twice (two URLs of the quoted status), and ".../17", which ends
\* with the characters of the id without being a link to it.
ExpandedUrls == {<<"x", "/", "7">>, <<"y", "/", "7">>, <<"x", "/", "1", "7">>}

UrlEntities == [url : {T1, T2}, expanded_url : ExpandedUrls]

MediaItems == {[url |-> T3, media_url_https |-> <<"p", "/", "1">>],
               [url |-> T4, media_url_https |-> <<"p", "/", "2">>]}

SeqsUpTo(S, n) == UNION {[1..k -> S] : k \in 0..n}

Texts ==
    LET a == <<"a">>
        b == <<"b">>
        s == <<SP>>
        n == <<NL>>
    IN  {<<>>, a, a \o n \o b, a \o n \o n \o b, a \o s \o n \o s \o b,
         a \o s \o T1, T1 \o s \o a, a \o s \o T1 \o s \o b, a \o T1,
         a \o n \o T1, T1 \o n \o a, a \o s \o s \o T1 \o n \o b,
         a \o s \o T2, a \o s \o T1 \o s \o T2, a \o s \o T2 \o s \o T1,
         a \o n \o T1 \o n \o T2, T1 \o s \o T1,
         a \o s \o T3, a \o n \o T3, a \o s \o T1 \o s \o T3}

CompatTexts ==
    {<<"a">>, <<"a", NL, "b">>, <<"a", SP>> \o T1, <<"a", NL>> \o T1}

Author == [name |-> <<"A", "l">>, screen_name |-> <<"a", "l">>]

\* A tweet object as decoded from the API's JSON.  full_text is there in
\* extended mode only (text is then the truncated form); extended_entities
\* only when the tweet has media; quoted_status_id_str only on a quote.
MkTweet(txt, extended, urls, media, quote) ==
    [text |-> IF extended THEN <<"a", ELLIPSIS>> ELSE txt,
     entities |-> [urls |-> urls],
     is_quote_status |-> quote,
     user |-> Author]
      @@ Opt(extended, "full_text", txt)
      @@ Opt(media # <<>>, "extended_entities", [media |-> media])
      @@ Opt(quote, "quoted_status_id_str", QuotedId)

\* Every text in extended mode, and the texts with a newline, a link or
\* neither in the older mode that has no full_text.
TextModes == {tm \in Texts \X BOOLEAN : tm[2] \/ tm[1] \in CompatTexts}

FormatTweets ==
    {MkTweet(tm[1], tm[2], urls, media, quote) :
        tm \in TextModes,
        urls \in SeqsUpTo(UrlEntities, MaxUrls),
        media \in SeqsUpTo(MediaItems, MaxMedia),
        quote \in BOOLEAN}

NoPrev == [known |-> FALSE]

Idle ==
    /\ pc = "ready"
    /\ http = ""
    /\ said = <<>>
    /\ logs = <<>>
    /\ requests = <<>>
    /\ routed = <<>>
    /\ result = <<>>
    /\ prev = NoPrev

InitFormat ==
    /\ call \in [fn : {"format_tweet"}, tweet : FormatTweets]
    /\ Idle

\* format_tweet(tweet) is called and returns.
FormatTweetCall ==
    /\ pc = "ready"
    /\ call.fn = "format_tweet"
    /\ result' = FormatTweet(call.tweet)
    /\ pc' = "done"
    /\ UNCHANGED <<call, http, said, logs, requests, routed, prev>>

NextFormat == FormatTweetCall

SpecFormat == InitFormat /\ [][NextFormat]_vars

(***************************************************************************)
(* What Twitter answers to output_status and output_user                   *)
(***************************************************************************)
MaxErrors == 2

HttpStatuses == {"200", "404", "503"}

Stamp1 == <<"W", "e", "d", " ", "O", "c", "t", " ", "1", "0", " ", "2", "0", ":", "1", "9", ":", "2", "4", " ", "+", "0", "0", "0", "0", " ", "2", "0", "1", "8">>
Stamp2 == <<"T", "h", "u", " ", "F", "e", "b", " ", "0", "7", " ", "0", "8", ":", "0", "5", ":", "0", "0", " ", "+", "0", "0", "0", "0", " ", "2", "0", "1", "9">>

NotJson == [json |-> FALSE]

Json(value) == [json |-> TRUE, value |-> value]

\* An error entry has a code, a message, both or neither.
ErrorEntries ==
    {Opt(hasCode, "code", 144) @@ Opt(hasMessage, "message", message) :
        hasCode \in BOOLEAN, hasMessage \in BOOLEAN,
        message \in {<<"N", "o">>, <<"N", "o", ".">>, <<>>}}

ErrorBodies == {[errors |-> es] : es \in SeqsUpTo(ErrorEntries, MaxErrors) \ {<<>>}}

\* A status: a tweet with its counts and its date.
MkStatus(tweet, author, retweets, favorites, stamp) ==
    [retweet_count |-> retweets, favorite_count |-> favorites, created_at |-> stamp,
     user |-> author] @@ tweet

Bo == [name |-> <<"B", "o">>, screen_name |-> <<"b", "o">>]

\* The quoted status, plain or itself a quote (of a status that is not nested
\* in it: the API nests one level).
QuotedStatuses ==
    {MkStatus(MkTweet(<<"q", NL, "r">>, TRUE, <<>>, <<>>, FALSE), Bo, 5, 1250, Stamp2),
     MkStatus(MkTweet(<<"q", SP>> \o T2, TRUE,
                      <<[url |-> T2, expanded_url |-> <<"x", "/", "7">>]>>, <<>>, TRUE),
              Bo, 5, 1250, Stamp2)}

StatusTexts == {<<"a">>, <<"a", SP>> \o T1, <<"a", NL>> \o T1}

\* The statuses: no quote; a quote with the quoted status; a quote without it
\* (the quoted status was deleted); each with and without an empty errors list.
Statuses ==
    {MkStatus(MkTweet(txt, TRUE, urls, <<>>, quote), Author, 3, 12, Stamp1)
        @@ Opt(emptyErrors, "errors", <<>>)
        @@ Opt(quote /\ nested, "quoted_status", quoted) :
        txt \in StatusTexts,
        urls \in {<<>>, <<[url |-> T1, expanded_url |-> <<"x", "/", "7">>]>>},
        quote \in BOOLEAN, nested \in BOOLEAN, quoted \in QuotedStatuses,
        emptyErrors \in BOOLEAN}

Descriptions ==
    {[text |-> <<"b", "i", "o">>, urls |-> <<>>],
     [text |-> <<"s", "e", "e", SP>> \o T2,
      urls |-> <<[url |-> T2, expanded_url |-> <<"y", ".", "i", "o">>]>>],
     [text |-> [i \in 1..MaxSendable |-> IF i % 7 = 0 THEN SP ELSE "z"], urls |-> <<>>]}

\* A user: location, url and description are there or not, and when there
\* may be empty (url: null).
Users ==
    {[name |-> <<"A", "l">>, screen_name |-> <<"a", "l">>,
      verified |-> verified, protected |-> protected,
      friends_count |-> counts[1], followers_count |-> counts[2],
      statuses_count |-> counts[3], favourites_count |-> counts[4],
      created_at |-> Stamp1,
      entities |-> [description |-> [urls |-> description.urls]]
                     @@ Opt(Truthy(url), "url",
                            [urls |-> <<[url |-> url,
                                         expanded_url |-> <<"x", ".", "i", "o">>]>>])]
        @@ Opt(location # <<"absent">>, "location", location)
        @@ Opt(url # <<"absent">>, "url", url)
        @@ Opt(hasDescription, "description", description.text) :
        verified \in BOOLEAN, protected \in BOOLEAN,
        counts \in {<<0, 7, 12, 999>>, <<1234, 1234567, 1000, 45>>},
        location \in {<<"absent">>, <<>>, <<"N", "Y">>},
        url \in {<<"absent">>, None, T1},
        hasDescription \in BOOLEAN,
        description \in Descriptions \cup {[text |-> <<>>, urls |-> <<>>]}}

OutputCalls ==
    [fn : {"output_status"}, id : {<<"1", "2">>},
     content : {NotJson} \cup {Json(v) : v \in ErrorBodies \cup Statuses},
     show : BOOLEAN]
    \cup
    [fn : {"output_user"}, sn : {<<"a", "l">>},
     content : {NotJson} \cup {Json(v) : v \in ErrorBodies \cup Users}]

InitOutput ==
    /\ call \in OutputCalls
    /\ Idle

\* What a run leaves in the state.
Ran(status, outcome) ==
    /\ http' = status
    /\ said' = outcome.said
    /\ logs' = outcome.logs
    /\ requests' = outcome.requests
    /\ pc' = IF outcome.raised = "" THEN "done" ELSE "raised"

\* output_status(bot, trigger, id_) runs; Twitter answers with some status.
OutputStatus ==
    /\ pc = "ready"
    /\ call.fn = "output_status"
    /\ \E status \in HttpStatuses :
          Ran(status, OutputStatusRun(call.id, status, call.content, call.show))
    /\ UNCHANGED <<call, routed, result, prev>>

\* output_user(bot, trigger, sn) runs; Twitter answers with some status.
OutputUser ==
    /\ pc = "ready"
    /\ call.fn = "output_user"
    /\ \E status \in HttpStatuses :
          Ran(status, OutputUserRun(call.sn, status, call.content))
    /\ UNCHANGED <<call, routed, result, prev>>

\* The same link is posted again: the host calls the function again, with the
\* same arguments, and Twitter holds the same content.
NextTrigger ==
    /\ pc \in {"done", "raised"}
    /\ call.fn \in {"output_status", "output_user"}
    /\ prev' = [known |-> TRUE, http |-> http, said |-> said, logs |-> logs,
                requests |-> requests, pc |-> pc]
    /\ pc' = "ready"
    /\ http' = ""
    /\ said' = <<>>
    /\ logs' = <<>>
    /\ requests' = <<>>
    /\ UNCHANGED <<call, routed, result>>

NextOutput == OutputStatus \/ OutputUser \/ NextTrigger

SpecOutput == InitOutput /\ [][NextOutput]_vars

(***************************************************************************)
(* get_url and the two patterns it is registered for                       *)
(*                                                                         *)
(* A match is the record of the named groups of the pattern that matched:  *)
(* a group that took no part in the match is None, and asking a match for  *)
(* a group its pattern does not have raises IndexError.                    *)
(***************************************************************************)
Host == <<":", "/", "/", "t", "w", "i", "t", "t", "e", "r", ".", "c", "o", "m", "/">>

StatusSegment == <<"/", "s", "t", "a", "t", "u", "s", "/">>

IWebStatus == <<"i", "/", "w", "e", "b", "/", "s", "t", "a", "t", "u", "s", "/">>

IsDigit(c) == c \in {"0", "1", "2", "3", "4", "5", "6", "7", "8", "9"}

\* https?://twitter\.com/ at the start of the URL: the text after it, or None
AfterHost(url) ==
    IF StartsWith(url, <<"h", "t", "t", "p">> \o Host)
    THEN SubSeq(url, 4 + Len(Host) + 1, Len(url))
    ELSE IF StartsWith(url, <<"h", "t", "t", "p", "s">> \o Host)
    THEN SubSeq(url, 5 + Len(Host) + 1, Len(url))
    ELSE None

\* The longest start of s made of characters other than "/": [^/]*
RECURSIVE NoSlashRun(_)
NoSlashRun(s) ==
    IF s = <<>> \/ Head(s) = "/" THEN <<>> ELSE <<Head(s)>> \o NoSlashRun(Tail(s))

\* The longest start of s made of digits: \d+ when it is not empty
RECURSIVE DigitRun(_)
DigitRun(s) ==
    IF s = <<>> \/ ~IsDigit(Head(s)) THEN <<>> ELSE <<Head(s)>> \o DigitRun(Tail(s))

\* https?://twitter\.com/(?P<user>[^/]*)(?:/status/(?P<status>\d+))?.*
MatchGeneral(url) ==
    LET rest == AfterHost(url)
        user == NoSlashRun(rest)
        after == SubSeq(rest, Len(user) + 1, Len(rest))
        digits == IF StartsWith(after, StatusSegment)
                  THEN DigitRun(SubSeq(after, Len(StatusSegment) + 1, Len(after)))
                  ELSE <<>>
    IN  [user |-> user, status |-> IF digits = <<>> THEN None ELSE digits]

\* https?://twitter\.com/i/web/status/(?P<status>\d+).*
IWebMatches(url) ==
    LET rest == AfterHost(url)
    IN  /\ rest # None
        /\ StartsWith(rest, IWebStatus)
        /\ DigitRun(SubSeq(rest, Len(IWebStatus) + 1, Len(rest))) # <<>>

MatchIWeb(url) ==
    LET rest == AfterHost(url)
    IN  [status |-> DigitRun(SubSeq(rest, Len(IWebStatus) + 1, Len(rest)))]

\* get_url(bot, trigger, match): the function it calls, and with what.
\* match.group(name) raises IndexError when the pattern has no such group.
GetUrlRoute(match) ==
    IF "status" \in DOMAIN match
    THEN [fn |-> "output_status", arg |-> match["status"]]
    ELSE IF "user" \in DOMAIN match
    THEN [fn |-> "output_user", arg |-> match["user"]]
    ELSE [fn |-> "return", arg |-> None]

\* The links posted: a name, a status segment or none, and what follows.
Schemes == {<<"h", "t", "t", "p">>, <<"h", "t", "t", "p", "s">>}

Names == {<<"a", "b">>, <<"i">>, <<>>}

StatusIds == {None, <<"1", "2">>, <<"7">>}

UrlTails == {<<>>, <<"/", "p", "h", "o", "t", "o", "/", "1">>,
             <<"/", "w", "e", "b", "/", "s", "t", "a", "t", "u", "s", "/", "1", "2">>,
             <<"/", "l", "i", "k", "e", "s">>}

Url(link) ==
    link.scheme \o Host \o link.name
        \o (IF link.digits = None THEN <<>> ELSE StatusSegment \o link.digits)
        \o link.tail

Links == [scheme : Schemes, name : Names, digits : StatusIds, tail : UrlTails]

\* The host calls get_url once for a pattern that matches the link.
GetUrlCalls ==
    {[fn |-> "get_url", link |-> link, pattern |-> pattern, show |-> show] :
        link \in Links, pattern \in {"general", "i/web"}, show \in BOOLEAN}

InitRoute ==
    /\ call \in {c \in GetUrlCalls : c.pattern = "i/web" => IWebMatches(Url(c.link))}
    /\ Idle

\* What Twitter may answer to the request the called function makes: there
\* is no status with the id None.
Answers(route) ==
    {NotJson} \cup {Json(v) : v \in ErrorBodies}
        \cup (IF route.fn = "output_status" /\ route.arg # None
              THEN {Json(v) : v \in Statuses} ELSE {})
        \cup (IF route.fn = "output_user" THEN {Json(v) : v \in Users} ELSE {})

RouteRun(route, status, content, show) ==
    CASE route.fn = "output_status" -> OutputStatusRun(route.arg, status, content, show)
      [] route.fn = "output_user" -> OutputUserRun(route.arg, status, content)
      [] OTHER -> Outcome(<<>>, <<>>, <<>>, "")

\* get_url runs for a link: it picks the function, which runs to its end.
GetUrl ==
    /\ pc = "ready"
    /\ call.fn = "get_url"
    /\ LET url == Url(call.link)
           match == IF call.pattern = "general" THEN MatchGeneral(url) ELSE MatchIWeb(url)
           route == GetUrlRoute(match)
       IN  /\ routed' = IF route.fn = "return" THEN <<>> ELSE <<route>>
           /\ \E status \in HttpStatuses, content \in Answers(route) :
                 Ran(IF route.fn = "return" THEN "" ELSE status,
                     RouteRun(route, status, content, call.show))
    /\ UNCHANGED <<call, result, prev>>

NextRoute == GetUrl

SpecRoute == InitRoute /\ [][NextRoute]_vars

(***************************************************************************)
(* Routing                                                                 *)
(***************************************************************************)
Returned == pc \in {"done", "raised"}

\* C1: for a link matched by the general pattern, get_url calls output_status
\* with the digits when the link has a status segment, and otherwise calls
\* output_user with the name and does not call output_status.
RoutesByStatusSegment ==
    (Returned /\ call.fn = "get_url" /\ call.pattern = "general") =>
        IF call.link.digits # None
        THEN routed = <<[fn |-> "output_status", arg |-> call.link.digits]>>
        ELSE routed = <<[fn |-> "output_user", arg |-> call.link.name]>>

(***************************************************************************)
(* Properties of format_tweet, checked under SpecFormat                    *)
(***************************************************************************)
FormatDone == pc = "done" /\ call.fn = "format_tweet"

\* The returned string without the author put in front of it.
FinalText == SubSeq(result, Len(AuthorPrefix(call.tweet)) + 1, Len(result))

\* The number of places of s at which sub occurs.
Count(sub, s) ==
    Cardinality({i \in 1..(Len(s) - Len(sub) + 1) : SubSeq(s, i, i + Len(sub) - 1) = sub})

\* seg is what follows the last "/" of s.
IsLastSegment(seg, s) ==
    /\ EndsWith(s, <<"/">> \o seg)
    /\ \A k \in 1..Len(seg) : seg[k] # "/"

\* The first URL entity that links to the quoted status, 0 when none does.
FirstQuotedLink(tweet) ==
    LET urls == tweet["entities"]["urls"]
        hits == {i \in 1..Len(urls) :
                    IsLastSegment(tweet["quoted_status_id_str"], urls[i]["expanded_url"])}
    IN  IF hits = {} THEN 0 ELSE Min(hits)

\* The places of s taken by an occurrence of u or by the whitespace that
\* touches one, on either side.
PlacesOfLink(s, u) ==
    {k \in 1..Len(s) :
        \E p \in 1..(Len(s) - Len(u) + 1) :
            /\ SubSeq(s, p, p + Len(u) - 1) = u
            /\ \/ k \in p..(p + Len(u) - 1)
               \/ k < p /\ \A m \in k..(p - 1) : IsSpace(s[m])
               \/ k >= p + Len(u) /\ \A m \in (p + Len(u))..k : IsSpace(s[m])}

\* s without the places in D.
RECURSIVE Without(_, _, _)
Without(s, D, i) ==
    IF i > Len(s) THEN <<>>
    ELSE (IF i \in D THEN <<>> ELSE <<s[i]>>) \o Without(s, D, i + 1)

\* C7 as amended: on a quote with a link to the quoted status, every
\* occurrence of the first such entity's shortened URL is removed together
\* with the whitespace around it, and of no other entity's: each other
\* shortened URL of the text is expanded, as the first entity that has it says.
QuotedLinkRemoved ==
    FormatDone /\ call.tweet["is_quote_status"] /\ FirstQuotedLink(call.tweet) # 0 =>
        LET urls == call.tweet["entities"]["urls"]
            u == urls[FirstQuotedLink(call.tweet)]["url"]
            t0 == ReplaceNewlines(SourceText(call.tweet))
            stripped == Without(t0, PlacesOfLink(t0, u), 1)
        IN  /\ FinalText = ExpandUrls(ExpandMedia(stripped, GetExtendedMedia(call.tweet)), urls)
            /\ ~Occurs(u, FinalText)
            /\ \A j \in 1..Len(urls) :
                  /\ urls[j]["url"] # u
                  /\ Occurs(urls[j]["url"], t0)
                  /\ \A i \in 1..(j - 1) : urls[i]["url"] # urls[j]["url"]
                  => /\ Occurs(urls[j]["expanded_url"], FinalText)
                     /\ ~Occurs(urls[j]["url"], FinalText)

\* A quote whose text holds two different links to the quoted status: the
\* first is gone, the second is expanded.
QuotedLinkRemovedWitness ==
    /\ FormatDone
    /\ call.tweet["is_quote_status"]
    /\ LET urls == call.tweet["entities"]["urls"]
           t0 == ReplaceNewlines(SourceText(call.tweet))
       IN  /\ Len(urls) = 2
           /\ FirstQuotedLink(call.tweet) = 1
           /\ urls[1]["url"] # urls[2]["url"]
           /\ IsLastSegment(QuotedId, urls[2]["expanded_url"])
           /\ Occurs(<<SP>> \o urls[1]["url"] \o <<SP>>, t0)
           /\ Occurs(urls[2]["url"], t0)
           /\ ~Occurs(urls[1]["expanded_url"], FinalText)
           /\ Occurs(urls[2]["expanded_url"], FinalText)

\* C7 as stated: only the first matching entity is removed; every other
\* entity of the text, also one that links to the quoted status too, stays
\* and shows expanded.
OnlyFirstQuotedEntityRemoved ==
    FormatDone /\ call.tweet["is_quote_status"] /\ FirstQuotedLink(call.tweet) # 0 =>
        LET urls == call.tweet["entities"]["urls"]
            t0 == ReplaceNewlines(SourceText(call.tweet))
        IN  \A j \in 1..Len(urls) :
               /\ j # FirstQuotedLink(call.tweet)
               /\ IsLastSegment(QuotedId, urls[j]["expanded_url"])
               /\ Occurs(urls[j]["url"], t0)
               => Occurs(urls[j]["expanded_url"], FinalText)

\* The media URLs appended for the attachments from the i-th on, t1 being the
\* text the media loop starts with: an attachment is appended when its
\* shortened URL is not in the text as its turn comes.
RECURSIVE AppendedFrom(_, _, _)
AppendedFrom(t1, media, i) ==
    IF i > Len(media) THEN <<>>
    ELSE (IF Occurs(media[i]["url"], ExpandMedia(t1, SubSeq(media, 1, i - 1)))
          THEN <<>> ELSE media[i]["media_url_https"])
         \o AppendedFrom(t1, media, i + 1)

\* C8: an attachment whose shortened URL is in the text when its turn comes
\* has it replaced by its media_url_https; the media_url_https of the others
\* end the final text, in attachment order, as they are.
MediaExpanded ==
    FormatDone =>
        LET media == GetExtendedMedia(call.tweet)
            t1 == RemoveQuotedLink(ReplaceNewlines(SourceText(call.tweet)), call.tweet)
            tail == AppendedFrom(t1, media, 1)
            body == SubSeq(FinalText, 1, Len(FinalText) - Len(tail))
        IN  /\ EndsWith(FinalText, tail)
            /\ \A i \in 1..Len(media) :
                  LET before == ExpandMedia(t1, SubSeq(media, 1, i - 1))
                  IN  Occurs(media[i]["url"], before) =>
                         /\ ~Occurs(media[i]["url"], FinalText)
                         /\ Count(media[i]["media_url_https"], body)
                               >= Count(media[i]["url"], before)

\* Two attachments and a link: the first attachment is replaced in the text,
\* the second appended, the link expanded after both.
MediaExpandedWitness ==
    /\ FormatDone
    /\ LET media == GetExtendedMedia(call.tweet)
           urls == call.tweet["entities"]["urls"]
       IN  /\ Len(media) = 2
           /\ Len(urls) = 1
           /\ ~call.tweet["is_quote_status"]
           /\ Occurs(media[1]["url"], SourceText(call.tweet))
           /\ ~Occurs(media[2]["url"], SourceText(call.tweet))
           /\ Occurs(urls[1]["url"], SourceText(call.tweet))
           /\ Occurs(media[1]["media_url_https"],
                     SubSeq(FinalText, 1, Len(FinalText) - Len(media[2]["media_url_https"])))
           /\ Occurs(urls[1]["expanded_url"], FinalText)
           /\ EndsWith(FinalText, media[2]["media_url_https"])

\* C9: no shortened URL of the URL-entity list is left in the final text.
NoShortenedUrlLeft ==
    FormatDone =>
        \A i \in 1..Len(call.tweet["entities"]["urls"]) :
            ~Occurs(call.tweet["entities"]["urls"][i]["url"], FinalText)

\* Two different links of the text, both expanded.
NoShortenedUrlLeftWitness ==
    /\ FormatDone
    /\ ~call.tweet["is_quote_status"]
    /\ LET urls == call.tweet["entities"]["urls"]
       IN  /\ Len(urls) = 2
           /\ urls[1]["url"] # urls[2]["url"]
           /\ urls[1]["expanded_url"] # urls[2]["expanded_url"]
           /\ \A i \in 1..2 : /\ Occurs(urls[i]["url"], SourceText(call.tweet))
                              /\ Occurs(urls[i]["expanded_url"], FinalText)

\* C10: the output has no raw newline, and each newline of the source text is
\* in it as U+23CE with a space on each side.
NewlinesShownPadded ==
    FormatDone =>
        /\ \A k \in 1..Len(result) : result[k] # NL
        /\ Count(<<GLYPH>>, FinalText) = Count(<<NL>>, SourceText(call.tweet))
        /\ \A k \in 1..Len(FinalText) :
              FinalText[k] = GLYPH =>
                 /\ 1 < k /\ k < Len(FinalText)
                 /\ FinalText[k - 1] = SP
                 /\ FinalText[k + 1] = SP

(***************************************************************************)
(* Properties of output_status and output_user, checked under SpecOutput   *)
(***************************************************************************)
OnStatusPath == call.fn = "output_status"

OnUserPath == call.fn = "output_user"

Decoded == call.content.json

\* The body has an errors list that is not empty.
HasErrors == Decoded /\ Get(call.content.value, "errors", <<>>) # <<>>

FirstError == call.content.value["errors"][1]

\* The line starts as a tweet or profile line does.
IsTwitterLine(line) == StartsWith(line, Tag)

\* C2: in output_status and output_user, a body whose errors list is not
\* empty gets exactly one line, the error message of the first entry; no
\* tweet, quoted-tweet or profile line follows, and Twitter is asked once.
ErrorEndsTheTrigger ==
    (Returned /\ (OnStatusPath \/ OnUserPath) /\ HasErrors) =>
        /\ pc = "done"
        /\ Len(said) = 1
        /\ StartsWith(said[1], ErrorPrefix)
        /\ ~IsTwitterLine(said[1])
        /\ "message" \in DOMAIN FirstError =>
              StartsWith(said[1], ErrorPrefix \o <<":", " ">> \o FirstError["message"])
        /\ "message" \notin DOMAIN FirstError =>
              said[1] = ErrorPrefix \o (IF OnStatusPath THEN TweetFallback ELSE UserFallback)
        /\ Len(requests) = 1

ErrorEndsTheTriggerWitness ==
    /\ pc = "done"
    /\ OnUserPath
    /\ HasErrors
    /\ Len(call.content.value["errors"]) = 2
    /\ "message" \in DOMAIN FirstError
    /\ "message" \notin DOMAIN call.content.value["errors"][2]
    /\ http = "404"
    /\ Len(said) = 1
    /\ Len(requests) = 1

\* C3: on the status path, the line for a first error entry with a message m
\* is "Twitter returned an error: " and m, with a period added only if that
\* does not end with one; without a message it is the prefix and the
\* fallback, ending with ". :( Maybe the tweet was deleted?".
StatusErrorLine ==
    (Returned /\ OnStatusPath /\ HasErrors) =>
        /\ Len(said) >= 1
        /\ IF "message" \in DOMAIN FirstError
           THEN LET base == ErrorPrefix \o <<":", " ">> \o FirstError["message"]
                IN  /\ said[1] = IF EndsWith(base, <<".">>) THEN base ELSE base \o <<".">>
                    /\ EndsWith(said[1], <<".">>)
                    /\ EndsWith(base, <<".">>) => Len(said[1]) = Len(base)
           ELSE /\ StartsWith(said[1], ErrorPrefix)
                /\ EndsWith(said[1], TweetFallback)
                /\ Len(said[1]) = Len(ErrorPrefix) + Len(TweetFallback)

StatusErrorLineWitness ==
    /\ pc = "done"
    /\ OnStatusPath
    /\ HasErrors
    /\ "message" \in DOMAIN FirstError
    /\ EndsWith(FirstError["message"], <<".">>)
    /\ said = <<ErrorPrefix \o <<":", " ">> \o FirstError["message"]>>

\* C4: an error-free status response gets exactly one line when the tweet is
\* not a quote or quoted tweets are not shown, and exactly two when it is a
\* quote and they are shown: the tweet's own line, then the quoted tweet's,
\* prefixed with "Quoting: "; never more than two.
QuoteLineCount ==
    (Returned /\ OnStatusPath /\ Decoded /\ ~HasErrors) =>
        /\ pc = "done"
        /\ Len(said) = IF call.content.value["is_quote_status"] /\ call.show
                       THEN 2 ELSE 1
        /\ IsTwitterLine(said[1])
        /\ Len(said) = 2 => StartsWith(said[2], Tag \o Quoting)

\* The lines said depend on what was decoded only: the two runs of a link
\* posted twice say the same and end the same way.
NotErrorLevel(entries) == SelectSeq(entries, LAMBDA e : e.level # "error")

ErrorLevel(entries) == SelectSeq(entries, LAMBDA e : e.level = "error")

\* C5: in output_status and output_user a status other than 200 only adds one
\* error log entry: the body is decoded and processed all the same, and the
\* lines said are those of a 200 response with the same body.
HttpStatusOnlyLogged ==
    (Returned /\ (OnStatusPath \/ OnUserPath)) =>
        /\ Len(ErrorLevel(logs)) = IF http = "200" THEN 0 ELSE 1
        /\ Len(requests) = 1
        /\ Decoded => pc = "raised" \/ Len(said) >= 1
        /\ prev.known =>
              /\ said = prev.said
              /\ pc = prev.pc
              /\ requests = prev.requests
              /\ NotErrorLevel(logs) = NotErrorLevel(prev.logs)

HttpStatusOnlyLoggedWitness ==
    /\ pc = "done"
    /\ OnStatusPath
    /\ prev.known
    /\ prev.http = "200"
    /\ http = "503"
    /\ Decoded
    /\ ~HasErrors
    /\ Len(said) = 2
    /\ said = prev.said
    /\ Len(logs) = 1

\* The parts of the profile line, in their order; a part that is empty is
\* left out and the others are joined by " | ".
RECURSIVE JoinParts(_)
JoinParts(parts) ==
    IF parts = <<>> THEN <<>>
    ELSE IF Head(parts) = <<>> THEN JoinParts(Tail(parts))
    ELSE IF JoinParts(Tail(parts)) = <<>> THEN Head(parts)
    ELSE Head(parts) \o Bar \o JoinParts(Tail(parts))

OptionalValue(user, key) ==
    IF key \in DOMAIN user /\ user[key] # None THEN user[key] ELSE <<>>

ProfileParts(user) ==
    <<Tag \o user["name"] \o <<" ", "(", "@">> \o user["screen_name"] \o <<")">>
          \o (IF user["verified"] THEN <<" ", CHECK, VS16>> ELSE <<>>)
          \o (IF user["protected"] THEN <<" ", LOCK>> ELSE <<>>),
      OptionalValue(user, "location"),
      IF OptionalValue(user, "url") = <<>> THEN <<>>
      ELSE user["entities"]["url"]["urls"][1]["expanded_url"],
      WithCommas(user["friends_count"]) \o Friends
          \o WithCommas(user["followers_count"]) \o Followers,
      WithCommas(user["statuses_count"]) \o Tweets
          \o WithCommas(user["favourites_count"]) \o Hearts,
      Joined \o FormatTime(user["created_at"]),
      IF OptionalValue(user, "description") = <<>> THEN <<>>
      ELSE ExpandUrls(user["description"], user["entities"]["description"]["urls"])>>

PresentOptionals(user) ==
    Cardinality({key \in {"location", "url", "description"} :
                    OptionalValue(user, key) # <<>>})

\* C6: in the line output_user builds, an optional field (location, url,
\* description) that is missing or empty adds neither text nor " | ", and one
\* that is there adds exactly one " | " and its value, in the fixed order.
\* A line longer than the host sends is a start of that line and " [...]".
ProfileLine ==
    (Returned /\ OnUserPath /\ Decoded /\ ~HasErrors) =>
        LET user == call.content.value
            line == JoinParts(ProfileParts(user))
        IN  /\ pc = "done"
            /\ Len(said) = 1
            /\ IF Utf8Len(line) <= MaxSendable
               THEN /\ said[1] = line
                    /\ Count(Bar, said[1]) = 3 + PresentOptionals(user)
               ELSE /\ EndsWith(said[1], Excess)
                    /\ StartsWith(line, SubSeq(said[1], 1, Len(said[1]) - Len(Excess)))

ProfileLineWitness ==
    /\ pc = "done"
    /\ OnUserPath
    /\ Decoded
    /\ ~HasErrors
    /\ "location" \in DOMAIN call.content.value
    /\ call.content.value["location"] = <<>>
    /\ "url" \in DOMAIN call.content.value
    /\ call.content.value["url"] = None
    /\ OptionalValue(call.content.value, "description") = <<"s", "e", "e", SP>> \o T2
    /\ call.content.value["verified"]
    /\ Count(Bar, said[1]) = 4
    /\ EndsWith(said[1], Bar \o <<"s", "e", "e", SP, "y", ".", "i", "o">>)

====
